---- MODULE Spec2Model ----
(***************************************************************************)
(* The rANS coder of ans-coder/src/lib.rs (AnsCoder) as a state machine.   *)
(*                                                                         *)
(* Number representation.  The register `state` is a u64 and the words of  *)
(* `buf` are u32; neither fits the integers of the model checker, so an    *)
(* unsigned machine integer is written as the sequence of its hexadecimal  *)
(* digits, least significant digit first: a u64 is 16 digits, a u32 is 8.  *)
(* 2^32 is <<0,0,0,0,0,0,0,0,1,0,0,0,0,0,0,0>>.  All shifts of the code    *)
(* (24, 32, 40 bits) are whole digits.  Probabilities, cumulatives and     *)
(* quantiles are at most 2^24 and are plain integers.                      *)
(***************************************************************************)
EXTENDS Integers, Sequences, FiniteSets, TLC

FREQUENCY_BITS == 24

\* Width of `state: u64` and of a word of `buf: Vec<u32>`, in hex digits.
U64Digits == 16
U32Digits == 8

\* Bounds of the model.
MaxPush == 3
MaxPop == 3
MaxBatches == 2
MaxBatchLen == 2

\* 2^FREQUENCY_BITS, the total probability mass (1 << FREQUENCY_BITS).
RECURSIVE Pow2(_)
Pow2(n) == IF n = 0 THEN 1 ELSE 2 * Pow2(n - 1)
T == Pow2(FREQUENCY_BITS)

\* FREQUENCY_BITS, 32 and 64 - FREQUENCY_BITS as whole hex digits.
FDigits == FREQUENCY_BITS \div 4
WordDigits == U32Digits
ThresholdDigits == U64Digits - FDigits

(***************************************************************************)
(* Machine arithmetic on digit sequences.                                  *)
(***************************************************************************)

\* `x as u64` / `x as u32` of a small non-negative integer: its n low digits.
RECURSIVE Digits(_, _)
Digits(x, n) == IF n = 0 THEN <<>> ELSE <<x % 16>> \o Digits(x \div 16, n - 1)

\* The value of a digit sequence that is known to be small (below 2^28).
RECURSIVE Value(_)
Value(d) == IF d = <<>> THEN 0 ELSE Head(d) + 16 * Value(Tail(d))

Zero(n) == [i \in 1..n |-> 0]

\* `d as uN` of a wider value (truncation) and of a narrower one (extension).
Truncate(d, n) == SubSeq(d, 1, n)
Extend(d, n) == d \o Zero(n - Len(d))

\* d >> (4k) and d << (4k) at the width of d; << drops the digits shifted out.
Shr(d, k) == [i \in 1..Len(d) |-> IF i + k <= Len(d) THEN d[i + k] ELSE 0]
Shl(d, k) == [i \in 1..Len(d) |-> IF i > k THEN d[i - k] ELSE 0]

\* a >= b for two values of the same width.
RECURSIVE GeqFrom(_, _, _)
GeqFrom(a, b, i) ==
    IF i = 0 THEN TRUE
    ELSE IF a[i] > b[i] THEN TRUE
    ELSE IF a[i] < b[i] THEN FALSE
    ELSE GeqFrom(a, b, i - 1)
Geq(a, b) == GeqFrom(a, b, Len(a))
Less(a, b) == ~Geq(a, b)

\* d / p and d % p for 1 <= p <= 2^24: schoolbook division, top digit first.
RECURSIVE DivFrom(_, _, _, _, _)
DivFrom(d, p, i, rem, quot) ==
    IF i = 0 THEN [quot |-> quot, rem |-> rem]
    ELSE LET cur == rem * 16 + d[i]
         IN  DivFrom(d, p, i - 1, cur % p, <<cur \div p>> \o quot)
DivMod(d, p) == DivFrom(d, p, Len(d), 0, <<>>)

\* p * d for p <= 2^24 at the width of d; carry is what did not fit.
RECURSIVE MulFrom(_, _, _, _, _)
MulFrom(d, p, i, carry, acc) ==
    IF i > Len(d) THEN [digits |-> acc, carry |-> carry]
    ELSE LET cur == p * d[i] + carry
         IN  MulFrom(d, p, i + 1, cur \div 16, Append(acc, cur % 16))
Mul(p, d) == MulFrom(d, p, 1, 0, <<>>)

\* a + b at the width of a; carry is what did not fit.
RECURSIVE AddFrom(_, _, _, _, _)
AddFrom(a, b, i, carry, acc) ==
    IF i > Len(a) THEN [digits |-> acc, carry |-> carry]
    ELSE LET cur == a[i] + b[i] + carry
         IN  AddFrom(a, b, i + 1, cur \div 16, Append(acc, cur % 16))
Add(a, b) == AddFrom(a, b, 1, 0, <<>>)

\* a | b, bit by bit.
OrBit(x, y, k) == IF (x \div k) % 2 = 1 \/ (y \div k) % 2 = 1 THEN k ELSE 0
OrDigit(x, y) == OrBit(x, y, 1) + OrBit(x, y, 2) + OrBit(x, y, 4) + OrBit(x, y, 8)
Or(a, b) == [i \in 1..Len(a) |-> OrDigit(a[i], b[i])]

\* 1 << 32 as a u64.
OneShl32 == Shl(Digits(1, U64Digits), WordDigits)

(***************************************************************************)
(* The distribution interface (trait DiscreteDistribution of the module    *)
(* `distributions`) and its two adapters.  Probabilities and cumulatives   *)
(* are in units of 2^-24: the probabilities of a distribution are >= 1 and *)
(* sum to T.                                                               *)
(*                                                                         *)
(* A table distribution holds its probabilities: `min` is the first        *)
(* supported symbol and probs[i] the probability of symbol min + i - 1.    *)
(* A quantized distribution holds the quantizer's range and the continuous *)
(* distribution it discretizes.                                            *)
(***************************************************************************)
Table(min, probs) == [kind |-> "table", min |-> min, probs |-> probs]

RECURSIVE SumTo(_, _)
SumTo(probs, n) == IF n = 0 THEN 0 ELSE probs[n] + SumTo(probs, n - 1)

Support(distribution) ==
    IF distribution.kind = "table"
        THEN distribution.min .. (distribution.min + Len(distribution.probs) - 1)
        ELSE distribution.min .. distribution.max

TableLookup(distribution, symbol) ==
    LET i == symbol - distribution.min + 1
    IN  <<SumTo(distribution.probs, i - 1), distribution.probs[i]>>

RECURSIVE TableQuantile(_, _, _, _)
TableQuantile(distribution, quantile, i, c) ==
    IF quantile < c + distribution.probs[i]
        THEN <<distribution.min + i - 1, c, distribution.probs[i]>>
        ELSE TableQuantile(distribution, quantile, i + 1, c + distribution.probs[i])

\* Normal::new(mean, std) for a mean that is a multiple of 1/2 (mean2 is
\* twice the mean) and a std of some thousandths: at the half-integers x
\* (x2 is twice x) the cdf of so narrow a Normal is 0 below the mean, 1/2 at
\* it and 1 above it.  CdfTimes is floor(cdf(x) * mass) for an even mass.
Normal(mean2, std) == [mean2 |-> mean2, std |-> std]
CdfTimes(continuous, x2, mass) ==
    IF x2 < continuous.mean2 THEN 0
    ELSE IF x2 = continuous.mean2 THEN mass \div 2
    ELSE mass

\* LeakyQuantizer::new(min, max) and quantize(D).
LeakyQuantizer(min, max) == [min |-> min, max |-> max]
quantize(quantizer, continuous) ==
    [kind |-> "quantized", min |-> quantizer.min, max |-> quantizer.max,
     continuous |-> continuous]

\* The left end of the interval of `symbol`; the right end is the left end
\* of symbol + 1, and T at max + 1.
QuantizedLeft(distribution, symbol) ==
    LET span == distribution.max - distribution.min + 1
        free_mass == T - span
    IN  IF symbol = distribution.min THEN 0
        ELSE IF symbol = distribution.max + 1 THEN T
        ELSE CdfTimes(distribution.continuous, 2 * symbol - 1, free_mass)
                 + (symbol - distribution.min)

QuantizedLookup(distribution, symbol) ==
    LET lo == QuantizedLeft(distribution, symbol)
        hi == QuantizedLeft(distribution, symbol + 1)
    IN  <<lo, hi - lo>>

\* The greatest symbol in lo..hi whose interval starts at or below quantile.
RECURSIVE QuantizedSearch(_, _, _, _)
QuantizedSearch(distribution, quantile, lo, hi) ==
    IF lo = hi THEN lo
    ELSE LET mid == (lo + hi + 1) \div 2
         IN  IF QuantizedLeft(distribution, mid) <= quantile
                 THEN QuantizedSearch(distribution, quantile, mid, hi)
                 ELSE QuantizedSearch(distribution, quantile, lo, mid - 1)

QuantizedQuantile(distribution, quantile) ==
    LET symbol == QuantizedSearch(distribution, quantile,
                                  distribution.min, distribution.max)
        cp == QuantizedLookup(distribution, symbol)
    IN  <<symbol, cp[1], cp[2]>>

\* Categorical::from_continuous_probabilities, for integer weights.
from_continuous_probabilities(min_supported, max_supported, min_provided, probabilities) ==
    LET symbols == min_supported..max_supported
        span == max_supported - min_supported + 1
        provided(s) == IF s - min_provided + 1 \in 1..Len(probabilities)
                           THEN probabilities[s - min_provided + 1] ELSE 0
        total == SumTo([i \in 1..span |-> provided(min_supported + i - 1)], span)
        w(s) == IF total = 0 THEN 1 ELSE provided(s)
        S == IF total = 0 THEN span ELSE total
        scaled(s) == w(s) * (T - span)
        reserved(s) == 1 + scaled(s) \div S
        fraction(s) == scaled(s) % S
        remainder == T - SumTo([i \in 1..span |-> reserved(min_supported + i - 1)],
                               span)
        before(s) == Cardinality({t \in symbols :
                         \/ fraction(t) > fraction(s)
                         \/ fraction(t) = fraction(s) /\ t < s})
        p(s) == reserved(s) + (IF before(s) < remainder THEN 1 ELSE 0)
    IN  Table(min_supported, [i \in 1..span |-> p(min_supported + i - 1)])

\* from_continuous_probabilities fails with InvalidDistribution for an empty
\* support (min > max) and for a support of more than T symbols.
valid_categorical(min_supported, max_supported, min_provided, probabilities) ==
    /\ min_supported <= max_supported
    /\ max_supported - min_supported + 1 <= T

\* The symbols a distribution supports.
supports(distribution, symbol) == symbol \in Support(distribution)

\* (left_sided_cumulative, probability) of a symbol: push_symbol takes the
\* result as a plain pair (lib.rs:23-24), for any symbol.  For a supported
\* symbol it is the pair of the tables.  What the pair is for a symbol
\* outside the support is not fixed by the interface: a distribution that is
\* called with such a symbol carries the pair its lookup returns in the
\* field `outside` (see Answering).
left_cumulative_and_probability(distribution, symbol) ==
    IF ~supports(distribution, symbol) THEN distribution.outside
    ELSE IF distribution.kind = "table"
        THEN TableLookup(distribution, symbol)
        ELSE QuantizedLookup(distribution, symbol)

\* (symbol, left_sided_cumulative, probability) of the symbol whose interval
\* [c, c + p) holds the quantile.
quantile_function(distribution, quantile) ==
    IF distribution.kind = "table"
        THEN TableQuantile(distribution, quantile, 1, 0)
        ELSE QuantizedQuantile(distribution, quantile)

(***************************************************************************)
(* AnsCoder.  A coder value is the record [buf, state].                    *)
(***************************************************************************)
new == [buf |-> <<>>, state |-> OneShl32]

\* push_symbol that shifts the prefix by a whole word, not by FREQUENCY_BITS.
push_symbol_ShiftWord(self, symbol, distribution) ==
    LET cp == left_cumulative_and_probability(distribution, symbol)
        threshold == Shl(Digits(cp[2], U64Digits), ThresholdDigits)
        spill == Geq(self.state, threshold)
        buf1 == IF spill THEN Append(self.buf, Truncate(self.state, U32Digits))
                         ELSE self.buf
        state1 == IF spill THEN Shr(self.state, WordDigits) ELSE self.state
        dm == DivMod(state1, cp[2])
        suffix == Add(Digits(dm.rem, U64Digits), Digits(cp[1], U64Digits)).digits
    IN  [buf |-> buf1, state |-> Or(Shl(dm.quot, WordDigits), suffix)]

\* push_symbol that spills the high word of the state, not the low word.
push_symbol_SpillHigh(self, symbol, distribution) ==
    LET cp == left_cumulative_and_probability(distribution, symbol)
        threshold == Shl(Digits(cp[2], U64Digits), ThresholdDigits)
        spill == Geq(self.state, threshold)
        buf1 == IF spill THEN Append(self.buf, Truncate(Shr(self.state, WordDigits),
                                                        U32Digits))
                         ELSE self.buf
        state1 == IF spill THEN Shr(self.state, WordDigits) ELSE self.state
        dm == DivMod(state1, cp[2])
        suffix == Add(Digits(dm.rem, U64Digits), Digits(cp[1], U64Digits)).digits
    IN  [buf |-> buf1, state |-> Or(Shl(dm.quot, FDigits), suffix)]

push_symbol(self, symbol, distribution) ==
    LET cp == left_cumulative_and_probability(distribution, symbol)
        left_sided_cumulative == cp[1]
        probability == cp[2]
        threshold == Shl(Digits(probability, U64Digits), ThresholdDigits)
        spill == Geq(self.state, threshold)
        buf1 == IF spill THEN Append(self.buf, Truncate(self.state, U32Digits))
                         ELSE self.buf
        state1 == IF spill THEN Shr(self.state, WordDigits) ELSE self.state
        dm == DivMod(state1, probability)
        prefix == dm.quot
        suffix == Add(Digits(dm.rem, U64Digits),
                      Digits(left_sided_cumulative, U64Digits)).digits
    IN  [buf |-> buf1, state |-> Or(Shl(prefix, FDigits), suffix)]

\* pop_symbol that refills from the oldest word of buf instead of the newest.
pop_symbol_Fifo(self, distribution) ==
    LET prefix == Shr(self.state, FDigits)
        suffix == Value(Truncate(self.state, FDigits))
        q == quantile_function(distribution, suffix)
        state1 == Add(Mul(q[3], prefix).digits,
                      Digits(suffix - q[2], U64Digits)).digits
    IN  IF Less(state1, OneShl32)
            THEN IF self.buf = <<>>
                     THEN [self |-> [buf |-> self.buf, state |-> state1],
                           ok |-> FALSE, symbol |-> 0]
                     ELSE [self |-> [buf |-> Tail(self.buf),
                                     state |-> Or(Shl(state1, WordDigits),
                                                  Extend(Head(self.buf), U64Digits))],
                           ok |-> TRUE, symbol |-> q[1]]
            ELSE [self |-> [buf |-> self.buf, state |-> state1],
                  ok |-> TRUE, symbol |-> q[1]]

\* pop_symbol that refills with a zero word when buf is empty.
pop_symbol_ZeroWord(self, distribution) ==
    LET prefix == Shr(self.state, FDigits)
        suffix == Value(Truncate(self.state, FDigits))
        q == quantile_function(distribution, suffix)
        state1 == Add(Mul(q[3], prefix).digits,
                      Digits(suffix - q[2], U64Digits)).digits
        word == IF self.buf = <<>> THEN Zero(U32Digits)
                                   ELSE self.buf[Len(self.buf)]
    IN  IF Less(state1, OneShl32)
            THEN [self |-> [buf |-> SubSeq(self.buf, 1, Len(self.buf) - 1),
                            state |-> Or(Shl(state1, WordDigits),
                                         Extend(word, U64Digits))],
                  ok |-> TRUE, symbol |-> q[1]]
            ELSE [self |-> [buf |-> self.buf, state |-> state1],
                  ok |-> TRUE, symbol |-> q[1]]

\* pop_symbol that writes the state only when the call succeeds.
pop_symbol_Rollback(self, distribution) ==
    LET prefix == Shr(self.state, FDigits)
        suffix == Value(Truncate(self.state, FDigits))
        q == quantile_function(distribution, suffix)
        state1 == Add(Mul(q[3], prefix).digits,
                      Digits(suffix - q[2], U64Digits)).digits
    IN  IF Less(state1, OneShl32)
            THEN IF self.buf = <<>>
                     THEN [self |-> self, ok |-> FALSE, symbol |-> 0]
                     ELSE [self |-> [buf |-> SubSeq(self.buf, 1, Len(self.buf) - 1),
                                     state |-> Or(Shl(state1, WordDigits),
                                                  Extend(self.buf[Len(self.buf)],
                                                         U64Digits))],
                           ok |-> TRUE, symbol |-> q[1]]
            ELSE [self |-> [buf |-> self.buf, state |-> state1],
                  ok |-> TRUE, symbol |-> q[1]]

\* The result: the coder after the call, ok (Ok or Err) and the symbol of Ok.
pop_symbol(self, distribution) ==
    LET prefix == Shr(self.state, FDigits)
        suffix == Value(Truncate(self.state, FDigits))
        q == quantile_function(distribution, suffix)
        symbol == q[1]
        left_sided_cumulative == q[2]
        probability == q[3]
        state1 == Add(Mul(probability, prefix).digits,
                      Digits(suffix - left_sided_cumulative, U64Digits)).digits
    IN  IF Less(state1, OneShl32)
            THEN IF self.buf = <<>>
                     THEN [self |-> [buf |-> self.buf, state |-> state1],
                           ok |-> FALSE, symbol |-> 0]
                     ELSE LET word == self.buf[Len(self.buf)]
                          IN  [self |-> [buf |-> SubSeq(self.buf, 1, Len(self.buf) - 1),
                                         state |-> Or(Shl(state1, WordDigits),
                                                      Extend(word, U64Digits))],
                               ok |-> TRUE, symbol |-> symbol]
            ELSE [self |-> [buf |-> self.buf, state |-> state1],
                  ok |-> TRUE, symbol |-> symbol]

\* finish_encoding with the two words of the state before the spilled words.
finish_encoding_StateFirst(self) ==
    <<Truncate(self.state, U32Digits),
      Truncate(Shr(self.state, WordDigits), U32Digits)>> \o self.buf

\* finish_encoding with the high word of the state before the low word.
finish_encoding_HighFirst(self) ==
    Append(Append(self.buf, Truncate(Shr(self.state, WordDigits), U32Digits)),
           Truncate(self.state, U32Digits))

finish_encoding(self) ==
    Append(Append(self.buf, Truncate(self.state, U32Digits)),
           Truncate(Shr(self.state, WordDigits), U32Digits))

\* finish_decoding that accepts every normalized state with an empty buf.
finish_decoding_Normalized(self) ==
    self.buf = <<>> /\ Geq(self.state, OneShl32)

\* finish_decoding that looks at buf alone.
finish_decoding_BufOnly(self) == self.buf = <<>>

\* TRUE is Ok(()), FALSE is Err(()).
finish_decoding(self) == self.buf = <<>> /\ self.state = OneShl32

\* num_bits that counts one word for the state.
num_bits_OneWord(self) == 32 * Len(self.buf) + 32

num_bits(self) == 32 * Len(self.buf) + 64

\* The decoder's coder for a word vector that finish_encoding returned: buf
\* is the vector without its last two words, state is (high << 32) | low of
\* those two.
Load(words) ==
    LET n == Len(words)
    IN  [buf |-> SubSeq(words, 1, n - 2),
         state |-> Or(Shl(Extend(words[n], U64Digits), WordDigits),
                      Extend(words[n - 1], U64Digits))]

\* The quantizer of the Gaussian batch helpers:
\* LeakyQuantizer::new(1 - (1 << 15), 1 << 15).
GaussianQuantizer == LeakyQuantizer(1 - Pow2(15), Pow2(15))

RECURSIVE PushGaussianFrom(_, _, _, _, _)
PushGaussianFrom(coder, symbols, means, stds, i) ==
    IF i > Len(symbols) THEN coder
    ELSE LET distribution == quantize(GaussianQuantizer, Normal(means[i], stds[i]))
         IN  PushGaussianFrom(push_symbol(coder, symbols[i], distribution),
                              symbols, means, stds, i + 1)

\* symbols, means and stds have one length (the assert_eq! of the code).
push_gaussian_symbols(coder, symbols, means, stds) ==
    PushGaussianFrom(coder, symbols, means, stds, 1)

\* Pops for the indices i, i - 1, ..., 1, writing each symbol to its index;
\* the first Err ends the call.
RECURSIVE PopGaussianFrom(_, _, _, _, _)
PopGaussianFrom(coder, means, stds, i, symbols) ==
    IF i = 0 THEN [self |-> coder, ok |-> TRUE, symbols |-> symbols]
    ELSE LET distribution == quantize(GaussianQuantizer, Normal(means[i], stds[i]))
             r == pop_symbol(coder, distribution)
         IN  IF r.ok
                 THEN PopGaussianFrom(r.self, means, stds, i - 1,
                                      [symbols EXCEPT ![i] = r.symbol])
                 ELSE [self |-> r.self, ok |-> FALSE, symbols |-> <<>>]

pop_gaussian_symbols(coder, means, stds) ==
    IF Len(means) = 0 THEN [self |-> coder, ok |-> TRUE, symbols |-> <<>>]
    ELSE PopGaussianFrom(coder, means, stds, Len(means), [i \in 1..Len(means) |-> 0])

RECURSIVE PushIidFrom(_, _, _, _)
PushIidFrom(coder, symbols, distribution, i) ==
    IF i > Len(symbols) THEN coder
    ELSE PushIidFrom(push_symbol(coder, symbols[i], distribution),
                     symbols, distribution, i + 1)

push_iid_categorical_symbols(coder, symbols, min_supported, max_supported, min_provided, probabilities) ==
    PushIidFrom(coder, symbols,
                from_continuous_probabilities(min_supported, max_supported,
                                              min_provided, probabilities), 1)

RECURSIVE PopIidFrom(_, _, _, _)
PopIidFrom(coder, distribution, i, symbols) ==
    IF i = 0 THEN [self |-> coder, ok |-> TRUE, symbols |-> symbols]
    ELSE LET r == pop_symbol(coder, distribution)
         IN  IF r.ok
                 THEN PopIidFrom(r.self, distribution, i - 1,
                                 [symbols EXCEPT ![i] = r.symbol])
                 ELSE [self |-> r.self, ok |-> FALSE, symbols |-> <<>>]

\* pop_iid_categorical_symbols that builds the distribution before it looks
\* at amt.
pop_iid_categorical_symbols_Eager(coder, amt, min_supported, max_supported, min_provided, probabilities) ==
    IF ~valid_categorical(min_supported, max_supported, min_provided, probabilities)
        THEN [self |-> coder, ok |-> FALSE, symbols |-> <<>>]
    ELSE IF amt = 0 THEN [self |-> coder, ok |-> TRUE, symbols |-> <<>>]
    ELSE PopIidFrom(coder,
                    from_continuous_probabilities(min_supported, max_supported,
                                                  min_provided, probabilities),
                    amt, [i \in 1..amt |-> 0])

\* The construction of the distribution fails for parameters that are not
\* valid; the call ends there, with the coder as it was.
pop_iid_categorical_symbols(coder, amt, min_supported, max_supported, min_provided, probabilities) ==
    IF amt = 0 THEN [self |-> coder, ok |-> TRUE, symbols |-> <<>>]
    ELSE IF ~valid_categorical(min_supported, max_supported, min_provided, probabilities)
        THEN [self |-> coder, ok |-> FALSE, symbols |-> <<>>]
    ELSE PopIidFrom(coder,
                    from_continuous_probabilities(min_supported, max_supported,
                                                  min_provided, probabilities),
                    amt, [i \in 1..amt |-> 0])

(***************************************************************************)
(* The state machine: one coder, called by one single-threaded caller.     *)
(***************************************************************************)
VARIABLES
    buf,      \* AnsCoder.buf: the spilled words, oldest first
    state,    \* AnsCoder.state
    alive,    \* the coder has not been consumed by finish_* or abandoned
    calls,    \* the calls made so far, oldest first
    last      \* the last call: the coder before it and what it returned

vars == <<buf, state, alive, calls, last>>

self == [buf |-> buf, state |-> state]

\* The distributions callers pass: every one satisfies the interface
\* (probabilities in 1..T that sum to T).  They hold the extreme
\* probabilities 1 and T, a power of two and an odd probability, the
\* cumulative 0 and a symbol with c + p = T.
Distributions ==
    << Table(0, <<T>>),
       Table(0, <<1, T \div 2, T \div 2 - 1>>) >>
DistIds == 1..Len(Distributions)

\* moved: the call appended a word to buf or removed one from it.
Call(op, d, symbol, ok, moved) ==
    [op |-> op, dist |-> d, symbol |-> symbol, ok |-> ok, moved |-> moved]
Last(op, d, symbol, ok, words) ==
    [op |-> op, pre |-> self, dist |-> d, symbol |-> symbol, ok |-> ok,
     words |-> words]

Pushes == SelectSeq(calls, LAMBDA c : c.op = "push_symbol")
Pops == SelectSeq(calls, LAMBDA c : c.op = "pop_symbol")

Init ==
    /\ buf = new.buf
    /\ state = new.state
    /\ alive = TRUE
    /\ calls = <<>>
    /\ last = [op |-> "new", pre |-> new, dist |-> 1, symbol |-> 0, ok |-> TRUE,
               words |-> <<>>]

PushSymbol(d, symbol) ==
    /\ alive
    /\ last.ok
    /\ Len(Pushes) < MaxPush
    /\ LET after == push_symbol(self, symbol, Distributions[d])
       IN  /\ buf' = after.buf
           /\ state' = after.state
           /\ calls' = Append(calls, Call("push_symbol", d, symbol, TRUE,
                                          Len(after.buf) # Len(buf)))
    /\ last' = Last("push_symbol", d, symbol, TRUE, <<>>)
    /\ UNCHANGED alive

\* A pop that returns Err leaves the coder as the failed call left it.  The
\* caller then gives the coder up (last.ok guards the other calls); it may
\* still hand it to finish_decoding.
PopSymbol(d) ==
    /\ alive
    /\ last.ok
    /\ Len(Pops) < MaxPop
    /\ LET r == pop_symbol(self, Distributions[d])
       IN  /\ buf' = r.self.buf
           /\ state' = r.self.state
           /\ calls' = Append(calls, Call("pop_symbol", d, r.symbol, r.ok,
                                          Len(r.self.buf) # Len(buf)))
           /\ last' = Last("pop_symbol", d, r.symbol, r.ok, <<>>)
    /\ UNCHANGED alive

FinishEncoding ==
    /\ alive
    /\ last.ok
    /\ alive' = FALSE
    /\ calls' = Append(calls, Call("finish_encoding", 1, 0, TRUE, FALSE))
    /\ last' = Last("finish_encoding", 1, 0, TRUE, finish_encoding(self))
    /\ UNCHANGED <<buf, state>>

FinishDecoding ==
    /\ alive
    /\ alive' = FALSE
    /\ LET ok == finish_decoding(self)
       IN  /\ calls' = Append(calls, Call("finish_decoding", 1, 0, ok, FALSE))
           /\ last' = Last("finish_decoding", 1, 0, ok, <<>>)
    /\ UNCHANGED <<buf, state>>

\* The caller of the decoder takes the words finish_encoding returned and
\* builds the coder to decode from; the run ends with that coder.
LoadWords ==
    /\ ~alive
    /\ last.op = "finish_encoding"
    /\ LET loaded == Load(last.words)
       IN  /\ buf' = loaded.buf
           /\ state' = loaded.state
    /\ calls' = Append(calls, Call("load", 1, 0, TRUE, FALSE))
    /\ last' = [last EXCEPT !.op = "load"]
    /\ UNCHANGED alive

Next ==
    \/ \E d \in DistIds : \E symbol \in Support(Distributions[d]) :
           PushSymbol(d, symbol)
    \/ \E d \in DistIds : PopSymbol(d)
    \/ FinishEncoding
    \/ FinishDecoding
    \/ LoadWords

Spec == Init /\ [][Next]_vars

(***************************************************************************)
(* The batch helpers.  The caller pushes batches and pops them as the      *)
(* helpers are meant to be paired: the batch pushed last is popped first,  *)
(* with the parameters it was pushed with.                                 *)
(***************************************************************************)

\* What the callers of the batch helpers pass.  An element of a Gaussian
\* batch is <<symbol, mean2, std>> (Normal above); the parameters of a
\* categorical batch are those of from_continuous_probabilities, the first
\* a single-symbol support.
GaussianElements == {<<1, 0, 1>>, <<0, 1, 1>>}
CategoricalParameters ==
    { [min_supported |-> 0, max_supported |-> 0, min_provided |-> 0,
       probabilities |-> <<1>>],
      [min_supported |-> 0, max_supported |-> 1, min_provided |-> 0,
       probabilities |-> <<1, 3>>] }

\* The sequences over S of length 0..n.
RECURSIVE SeqsUpTo(_, _)
SeqsUpTo(S, n) ==
    IF n = 0 THEN {<<>>}
    ELSE LET shorter == SeqsUpTo(S, n - 1)
         IN  shorter \cup {Append(q, x) : q \in {r \in shorter : Len(r) = n - 1},
                                           x \in S}

Column(elements, k) == [i \in 1..Len(elements) |-> elements[i][k]]

BatchCall(op, kind, args, symbols, ok, after) ==
    [op |-> op, kind |-> kind, args |-> args, symbols |-> symbols, ok |-> ok,
     pre |-> self, post |-> after]

\* The pushed batches not yet popped, oldest first.
RECURSIVE PendingOf(_)
PendingOf(cs) ==
    IF cs = <<>> THEN <<>>
    ELSE LET before == PendingOf(SubSeq(cs, 1, Len(cs) - 1))
             c == cs[Len(cs)]
         IN  IF c.op = "push" THEN Append(before, c)
             ELSE IF c.op = "pop" THEN SubSeq(before, 1, Len(before) - 1)
             ELSE before
Pending == PendingOf(calls)
NumBatches == Len(SelectSeq(calls, LAMBDA c : c.op = "push"))

BatchDone(call, after) ==
    /\ buf' = after.buf
    /\ state' = after.state
    /\ calls' = Append(calls, call)
    /\ last' = call
    /\ UNCHANGED alive

PushGaussianSymbols(elements) ==
    /\ alive
    /\ last.ok
    /\ NumBatches < MaxBatches
    /\ LET symbols == Column(elements, 1)
           means == Column(elements, 2)
           stds == Column(elements, 3)
           after == push_gaussian_symbols(self, symbols, means, stds)
       IN  BatchDone(BatchCall("push", "gaussian",
                               [means |-> means, stds |-> stds],
                               symbols, TRUE, after), after)

PopGaussianSymbols ==
    /\ alive
    /\ last.ok
    /\ Pending # <<>>
    /\ LET top == Pending[Len(Pending)]
       IN  /\ top.kind = "gaussian"
           /\ LET r == pop_gaussian_symbols(self, top.args.means, top.args.stds)
              IN  BatchDone(BatchCall("pop", "gaussian", top.args, r.symbols,
                                      r.ok, r.self), r.self)

PushIidCategoricalSymbols(symbols, args) ==
    /\ alive
    /\ last.ok
    /\ NumBatches < MaxBatches
    /\ LET after == push_iid_categorical_symbols(self, symbols,
                        args.min_supported, args.max_supported,
                        args.min_provided, args.probabilities)
       IN  BatchDone(BatchCall("push", "categorical", args, symbols, TRUE, after),
                     after)

PopIidCategoricalSymbols ==
    /\ alive
    /\ last.ok
    /\ Pending # <<>>
    /\ LET top == Pending[Len(Pending)]
       IN  /\ top.kind = "categorical"
           /\ LET r == pop_iid_categorical_symbols(self, Len(top.symbols),
                           top.args.min_supported, top.args.max_supported,
                           top.args.min_provided, top.args.probabilities)
              IN  BatchDone(BatchCall("pop", "categorical", top.args, r.symbols,
                                      r.ok, r.self), r.self)

FinishDecodingBatch ==
    /\ alive
    /\ alive' = FALSE
    /\ LET call == BatchCall("finish_decoding", "none", <<>>, <<>>,
                             finish_decoding(self), self)
       IN  /\ calls' = Append(calls, call)
           /\ last' = call
    /\ UNCHANGED <<buf, state>>

InitBatch ==
    /\ buf = new.buf
    /\ state = new.state
    /\ alive = TRUE
    /\ calls = <<>>
    /\ last = [op |-> "new", kind |-> "none", args |-> <<>>, symbols |-> <<>>,
               ok |-> TRUE, pre |-> new, post |-> new]

NextBatch ==
    \/ \E elements \in SeqsUpTo(GaussianElements, MaxBatchLen) :
           PushGaussianSymbols(elements)
    \/ PopGaussianSymbols
    \/ \E args \in CategoricalParameters :
           \E symbols \in SeqsUpTo(args.min_supported..args.max_supported,
                                   MaxBatchLen) :
               PushIidCategoricalSymbols(symbols, args)
    \/ PopIidCategoricalSymbols
    \/ FinishDecodingBatch

SpecBatch == InitBatch /\ [][NextBatch]_vars

(***************************************************************************)
(* Batch pops of no symbols.  After up to MaxSetupCalls of the batch calls *)
(* above the caller pops zero symbols, with any parameters.  Such a pop    *)
(* moves no symbol: it is kept in `last` and not in `calls`.               *)
(***************************************************************************)
MaxSetupCalls == 2

\* Parameters from_continuous_probabilities does not accept: an empty
\* support.
InvalidCategoricalParameters ==
    { [min_supported |-> 1, max_supported |-> 0, min_provided |-> 0,
       probabilities |-> <<>>] }

EmptyPopDone(call, after) ==
    /\ buf' = after.buf
    /\ state' = after.state
    /\ last' = call
    /\ UNCHANGED <<alive, calls>>

PopGaussianNothing ==
    /\ alive
    /\ last.ok
    /\ LET r == pop_gaussian_symbols(self, <<>>, <<>>)
       IN  EmptyPopDone(BatchCall("pop0", "gaussian",
                                  [means |-> <<>>, stds |-> <<>>],
                                  r.symbols, r.ok, r.self), r.self)

PopIidCategoricalNothing(args) ==
    /\ alive
    /\ last.ok
    /\ LET r == pop_iid_categorical_symbols(self, 0,
                       args.min_supported, args.max_supported,
                       args.min_provided, args.probabilities)
       IN  EmptyPopDone(BatchCall("pop0", "categorical", args, r.symbols,
                                  r.ok, r.self), r.self)

NextEmptyPops ==
    \/ Len(calls) < MaxSetupCalls /\ NextBatch
    \/ PopGaussianNothing
    \/ \E args \in CategoricalParameters \cup InvalidCategoricalParameters :
           PopIidCategoricalNothing(args)

SpecEmptyPops == InitBatch /\ [][NextEmptyPops]_vars

(***************************************************************************)
(* Any calls in any order: the caller makes up to MaxCalls calls of        *)
(* push_symbol, pop_symbol and finish_decoding.  Every call is recorded    *)
(* with the coder before it.                                               *)
(***************************************************************************)
MaxCalls == 5

\* The distributions of these callers: those above and one whose first
\* symbol has the probability T - 1, the greatest below T.
CallDistributions == Distributions \o << Table(0, <<T - 1, 1>>) >>
CallDistIds == 1..Len(CallDistributions)

CallFrom(op, d, symbol, ok, moved) ==
    [op |-> op, pre |-> self, dist |-> d, symbol |-> symbol, ok |-> ok,
     moved |-> moved, words |-> <<>>]

CallDone(call, after) ==
    /\ buf' = after.buf
    /\ state' = after.state
    /\ calls' = Append(calls, call)
    /\ last' = call
    /\ UNCHANGED alive

\* push_symbol returns nothing: the call is recorded as one that did not fail.
CallPushSymbol(d, symbol) ==
    /\ alive
    /\ last.ok
    /\ Len(calls) < MaxCalls
    /\ LET after == push_symbol(self, symbol, CallDistributions[d])
       IN  CallDone(CallFrom("push_symbol", d, symbol, TRUE,
                             Len(after.buf) # Len(buf)), after)

CallPopSymbol(d) ==
    /\ alive
    /\ last.ok
    /\ Len(calls) < MaxCalls
    /\ LET r == pop_symbol(self, CallDistributions[d])
       IN  CallDone(CallFrom("pop_symbol", d, r.symbol, r.ok,
                             Len(r.self.buf) # Len(buf)), r.self)

CallFinishDecoding ==
    /\ alive
    /\ alive' = FALSE
    /\ LET call == CallFrom("finish_decoding", 1, 0, finish_decoding(self), FALSE)
       IN  /\ calls' = Append(calls, call)
           /\ last' = call
    /\ UNCHANGED <<buf, state>>

InitCalls ==
    /\ buf = new.buf
    /\ state = new.state
    /\ alive = TRUE
    /\ calls = <<>>
    /\ last = [op |-> "new", pre |-> new, dist |-> 1, symbol |-> 0, ok |-> TRUE,
               moved |-> FALSE, words |-> <<>>]

NextCalls ==
    \/ \E d \in CallDistIds :
           \E symbol \in Support(CallDistributions[d]) : CallPushSymbol(d, symbol)
    \/ \E d \in CallDistIds : CallPopSymbol(d)
    \/ CallFinishDecoding

SpecCalls == InitCalls /\ [][NextCalls]_vars

(***************************************************************************)
(* Pushes of symbols the distribution does not support.  Within            *)
(* MaxOutsideCalls calls the caller makes the calls above and also pushes  *)
(* symbols from outside the support.  push_symbol has no check of its own  *)
(* and no result: it uses the pair the lookup returns.  The lookup is the  *)
(* distribution's; the pair it returns for such a symbol is any of         *)
(* OutsideLookups.                                                         *)
(***************************************************************************)
MaxOutsideCalls == 3

\* The symbols next to the support, which the distribution does not support.
Unsupported(distribution) ==
    LET supported == Support(distribution)
    IN  {s \in {x - 1 : x \in supported} \cup {x + 1 : x \in supported} :
            s \notin supported}

\* Pairs (left_sided_cumulative, probability) a lookup can return for a
\* symbol outside the support: pairs of the interface's ranges, at the low
\* and the high end of the scale.
OutsideLookups == { <<0, 1>>, <<T - 2, 2>> }

\* The distribution, answering `pair` for the symbols outside its support.
Answering(distribution, pair) ==
    [f \in DOMAIN distribution \cup {"outside"} |->
        IF f = "outside" THEN pair ELSE distribution[f]]

CallPushUnsupported(d, symbol, pair) ==
    /\ alive
    /\ last.ok
    /\ Len(calls) < MaxOutsideCalls
    /\ LET after == push_symbol(self, symbol, Answering(CallDistributions[d], pair))
       IN  CallDone(CallFrom("push_symbol", d, symbol, TRUE,
                             Len(after.buf) # Len(buf)), after)

NextOutside ==
    \/ Len(calls) < MaxOutsideCalls /\ NextCalls
    \/ \E d \in CallDistIds : \E symbol \in Unsupported(CallDistributions[d]) :
           \E pair \in OutsideLookups : CallPushUnsupported(d, symbol, pair)

SpecOutside == InitCalls /\ [][NextOutside]_vars

(***************************************************************************)
(* Properties.                                                             *)
(***************************************************************************)

\* 2^32 written out, and the tests "below 2^32" / "the low and high word".
TwoTo32 == <<0, 0, 0, 0, 0, 0, 0, 0, 1, 0, 0, 0, 0, 0, 0, 0>>
LowWord(x) == SubSeq(x, 1, 8)
HighWord(x) == SubSeq(x, 9, 16)
Below2To32(x) == HighWord(x) = <<0, 0, 0, 0, 0, 0, 0, 0>>

NumPushes == Len(Pushes)
NumPops == Len(Pops)

\* The calls so far are n pushes followed by k <= n pops, the j-th pop with
\* the distribution of the j-th last push.
PushesThenReversePops ==
    /\ \A i \in 1..NumPushes : calls[i].op = "push_symbol"
    /\ NumPops <= NumPushes
    /\ \A j \in 1..NumPops :
           calls[NumPushes + j].dist = calls[NumPushes - j + 1].dist

\* C1 as stated: pushes followed by pops with the same distributions in
\* reverse order make every pop succeed and return the pushed symbol, and a
\* finish_decoding after the last of them succeeds.
C1_RoundTrip ==
    PushesThenReversePops =>
        /\ \A j \in 1..NumPops :
               /\ calls[NumPushes + j].ok
               /\ calls[NumPushes + j].symbol = calls[NumPushes - j + 1].symbol
        /\ (last.op = "finish_decoding" /\ NumPops = NumPushes) => last.ok

\* C2 as stated: after any pushes and successful pops the register is at
\* least 2^32 (it is below 2^64 by its type).
C2_Normalized ==
    (last.ok /\ last.op \in {"new", "push_symbol", "pop_symbol"}) =>
        ~Below2To32(state)

\* C3: finish_decoding returns Ok exactly when buf is empty and state is
\* 2^32; a fresh coder passes.
C3_FinishDecoding ==
    last.op = "finish_decoding" =>
        /\ last.ok <=> (Len(last.pre.buf) = 0 /\ last.pre.state = TwoTo32)
        /\ Len(calls) = 1 => last.ok

C3_Witness ==
    /\ last.op = "finish_decoding"
    /\ last.ok
    /\ NumPushes >= 2
    /\ NumPops >= 2

\* What pop_symbol computes before it renormalizes: p * prefix + (suffix - c).
PopUpdate(pre, distribution) ==
    LET prefix == Shr(pre.state, FDigits)
        suffix == Value(SubSeq(pre.state, 1, FDigits))
        q == quantile_function(distribution, suffix)
    IN  Add(Mul(q[3], prefix).digits, Digits(suffix - q[2], U64Digits)).digits

\* C4: pop_symbol returns Err exactly when the updated state is below 2^32
\* and buf is empty; with a word in buf it removes the last word w and the
\* state becomes (state << 32) | w; at 2^32 or above buf is untouched.
C4_PopRefill ==
    last.op = "pop_symbol" =>
        LET pre == last.pre
            updated == PopUpdate(pre, Distributions[last.dist])
            k == Len(pre.buf)
        IN  /\ ~last.ok <=> (Below2To32(updated) /\ k = 0)
            /\ (Below2To32(updated) /\ k > 0) =>
                   /\ buf = SubSeq(pre.buf, 1, k - 1)
                   /\ state = pre.buf[k] \o LowWord(updated)
            /\ ~Below2To32(updated) =>
                   /\ buf = pre.buf
                   /\ state = updated

C4_Witness ==
    /\ last.op = "pop_symbol"
    /\ last.ok
    /\ Len(last.pre.buf) = 2
    /\ Len(buf) = 1
    /\ last.pre.buf[1] # last.pre.buf[2]

\* C5: finish_encoding returns buf followed by the low and then the high
\* word of state, 32 * (k + 2) bits, which is num_bits() before the call.
C5_FinishEncoding ==
    last.op = "finish_encoding" =>
        LET k == Len(last.pre.buf)
        IN  /\ Len(last.words) = k + 2
            /\ SubSeq(last.words, 1, k) = last.pre.buf
            /\ last.words[k + 1] = LowWord(last.pre.state)
            /\ last.words[k + 2] = HighWord(last.pre.state)
            /\ 32 * Len(last.words) = num_bits(last.pre)

C5_Witness ==
    /\ last.op = "finish_encoding"
    /\ Len(last.pre.buf) = 2
    /\ last.pre.buf[1] # last.pre.buf[2]
    /\ LowWord(last.pre.state) # HighWord(last.pre.state)

\* C6: num_bits() is 64 on a fresh coder, always at least 64 and a multiple
\* of 32, and a push_symbol adds 0 or 32 to it.
C6_NumBits ==
    /\ calls = <<>> => num_bits(self) = 64
    /\ num_bits(self) >= 64
    /\ num_bits(self) % 32 = 0
    /\ last.op = "push_symbol" =>
           num_bits(self) - num_bits(last.pre) \in {0, 32}

C6_Witness ==
    /\ last.op = "push_symbol"
    /\ num_bits(last.pre) = 96
    /\ num_bits(self) = 128

\* The last two calls are a batch push and the pop that pairs with it.
PopRightAfterPush ==
    /\ Len(calls) >= 2
    /\ calls[Len(calls)].op = "pop"
    /\ calls[Len(calls) - 1].op = "push"

\* C7 as stated: a batch pop right after the batch push, with the same
\* parameters, succeeds, returns the pushed vector and leaves state and buf
\* as they were before the push.
C7_BatchRoundTrip ==
    PopRightAfterPush =>
        LET pop == calls[Len(calls)]
            push == calls[Len(calls) - 1]
        IN  /\ pop.ok
            /\ pop.symbols = push.symbols
            /\ self = push.pre

\* C8 as stated: on a fresh coder, a Gaussian and a categorical batch pushed
\* one after the other and popped in the reverse order both come back as
\* pushed, and finish_decoding then succeeds.
C8_LifoBatches ==
    ( /\ Len(calls) >= 4
      /\ calls[1].op = "push" /\ calls[2].op = "push"
      /\ calls[1].kind # calls[2].kind
      /\ calls[3].op = "pop" /\ calls[4].op = "pop" ) =>
        /\ calls[3].ok /\ calls[3].symbols = calls[2].symbols
        /\ calls[4].ok /\ calls[4].symbols = calls[1].symbols
        /\ Len(calls) = 5 => last.ok

\* The calls so far are pushes followed by pops, and the distributions of
\* the pops are exactly those of the pushes in reverse order.
PushesFirst == \A i \in 1..NumPushes : calls[i].op = "push_symbol"
ReverseExactly == PushesThenReversePops /\ NumPops = NumPushes

Spills == Cardinality({i \in 1..Len(calls) :
              calls[i].op = "push_symbol" /\ calls[i].moved})
Refills == Cardinality({i \in 1..Len(calls) :
               calls[i].op = "pop_symbol" /\ calls[i].moved})

\* No symbol pushed so far has the probability T.
NoCertainPush ==
    \A i \in 1..Len(calls) :
        calls[i].op = "push_symbol" =>
            left_cumulative_and_probability(Distributions[calls[i].dist],
                                            calls[i].symbol)[2] < T

\* C9 as stated: after the pushes, pops whose distributions are not exactly
\* those of the pushes in reverse order (another distribution somewhere, or
\* another number of pops) make a pop_symbol or finish_decoding fail.  It is
\* stated for the runs with at least one push and no push of a symbol of
\* probability T, where push_symbol renormalizes as intended.
C9_OnlyReverseCompletes ==
    (last.op = "finish_decoding" /\ PushesFirst /\ NumPushes >= 1
         /\ NoCertainPush /\ ~ReverseExactly) =>
        \/ \E i \in 1..Len(calls) : ~calls[i].ok
        \/ ~last.ok

\* C9 amended: decoding completes (every pop and finish_decoding succeed)
\* only if the pops took as many words from buf as the pushes spilled and,
\* when a symbol was pushed, at least one pop was made.
C9_CompletesOnlyIfConsumed ==
    (last.op = "finish_decoding" /\ last.ok) =>
        /\ \A i \in 1..Len(calls) : calls[i].ok
        /\ Spills = Refills
        /\ NumPushes >= 1 => NumPops >= 1

C9_Witness ==
    /\ last.op = "finish_decoding"
    /\ last.ok
    /\ PushesFirst
    /\ ~ReverseExactly
    /\ Spills >= 1

\* C10: the coder loaded from the words of finish_encoding (buf: all but the
\* last two words, state: (high << 32) | low) has the buf and the state of
\* the coder that was serialized.
C10_SerializationRoundTrip ==
    last.op = "load" =>
        /\ buf = last.pre.buf
        /\ state = last.pre.state

C10_Witness ==
    /\ last.op = "load"
    /\ Len(buf) = 2
    /\ buf[1] # buf[2]
    /\ LowWord(state) # HighWord(state)

\* The calls so far are successful push_symbol and pop_symbol calls.
OnlyPushesAndPops ==
    /\ last.ok
    /\ last.op \in {"new", "push_symbol", "pop_symbol"}

\* No symbol pushed so far has the probability T.
NoCertainCall ==
    \A i \in 1..Len(calls) :
        (calls[i].op = "push_symbol" /\ calls[i].ok) =>
            left_cumulative_and_probability(CallDistributions[calls[i].dist],
                                            calls[i].symbol)[2] < T

\* C11 as stated: in a state reached by push_symbol and successful pop_symbol
\* calls, state = 2^32 implies that buf is empty.  It is stated for the runs
\* with no push of a symbol of probability T, where push_symbol renormalizes
\* as intended.
C11_OnlyInitialAt2To32 ==
    (OnlyPushesAndPops /\ NoCertainCall /\ state = TwoTo32) => buf = <<>>

\* What push_symbol divides: the register after renormalize-out.
Renormalized(call, after) ==
    IF Len(after.buf) > Len(call.pre.buf)
        THEN Shr(call.pre.state, WordDigits)
        ELSE call.pre.state

\* C11 amended: state = 2^32 with an empty buf is the state of the fresh
\* coder, and a push_symbol leaves state = 2^32 exactly when the symbol's
\* left cumulative is 0 and the register after renormalize-out is p * 2^8,
\* whether buf is empty or not.
C11_PushTo2To32 ==
    /\ calls = <<>> => (state = TwoTo32 /\ buf = <<>>)
    /\ (last.op = "push_symbol" /\ last.ok) =>
           LET cp == left_cumulative_and_probability(CallDistributions[last.dist],
                                                     last.symbol)
           IN  state = TwoTo32 <=>
                   /\ cp[1] = 0
                   /\ Renormalized(last, self) = Mul(cp[2], Digits(256, U64Digits)).digits

C11_Witness ==
    /\ last.op = "push_symbol"
    /\ last.ok
    /\ NoCertainCall
    /\ state = TwoTo32
    /\ Len(buf) >= 1

\* x << 4k keeps every bit of x.
ShlExact(x, k) == Shr(Shl(x, k), k) = x

\* C12 as stated: from a state in [2^32, 2^64), with (c, p) of a supported
\* symbol, no operation of push_symbol or pop_symbol loses bits: the
\* threshold p << (64 - F), the update (prefix << F) | suffix, which is
\* prefix * 2^F + suffix, the product p * prefix + (suffix - c), and the
\* refill (state << 32) | w.
C12_NoOverflow ==
    /\ (last.op = "push_symbol" /\ last.ok /\ ~Below2To32(last.pre.state)) =>
           LET cp == left_cumulative_and_probability(CallDistributions[last.dist],
                                                     last.symbol)
               dm == DivMod(Renormalized(last, self), cp[2])
               suffix == Add(Digits(dm.rem, U64Digits), Digits(cp[1], U64Digits))
               sum == Add(Shl(dm.quot, FDigits), suffix.digits)
           IN  /\ ShlExact(Digits(cp[2], U64Digits), ThresholdDigits)
               /\ suffix.carry = 0
               /\ ShlExact(dm.quot, FDigits)
               /\ sum.carry = 0
               /\ state = sum.digits
    /\ (last.op = "pop_symbol" /\ ~Below2To32(last.pre.state)) =>
           LET prefix == Shr(last.pre.state, FDigits)
               suffix == Value(SubSeq(last.pre.state, 1, FDigits))
               q == quantile_function(CallDistributions[last.dist], suffix)
               product == Mul(q[3], prefix)
               sum == Add(product.digits, Digits(suffix - q[2], U64Digits))
           IN  /\ suffix >= q[2]
               /\ product.carry = 0
               /\ sum.carry = 0
               /\ Below2To32(sum.digits) => ShlExact(sum.digits, WordDigits)

PopAfterPush ==
    /\ Len(calls) >= 2
    /\ calls[Len(calls) - 1].op = "push_symbol"
    /\ calls[Len(calls) - 1].ok
    /\ calls[Len(calls)].op = "pop_symbol"
    /\ calls[Len(calls)].dist = calls[Len(calls) - 1].dist

\* C14 as stated: from every state reached by push_symbol and successful
\* pop_symbol calls, push_symbol(s, D) followed at once by pop_symbol(D)
\* succeeds, returns s and leaves state and buf as they were before the push.
C14_SingleStepInverse ==
    PopAfterPush =>
        LET push == calls[Len(calls) - 1]
            pop == calls[Len(calls)]
        IN  /\ pop.ok
            /\ pop.symbol = push.symbol
            /\ buf = push.pre.buf
            /\ state = push.pre.state

\* C15: push_symbol leaves the words of buf as they are and appends either
\* nothing or one word, the low 32 bits of the state before the call;
\* pop_symbol appends nothing and removes either nothing or the last word,
\* leaving the other words as they are and in order.
C15_BufferDiscipline ==
    /\ last.op = "push_symbol" =>
           \/ buf = last.pre.buf
           \/ buf = Append(last.pre.buf, LowWord(last.pre.state))
    /\ last.op = "pop_symbol" =>
           \/ buf = last.pre.buf
           \/ /\ Len(last.pre.buf) >= 1
              /\ buf = SubSeq(last.pre.buf, 1, Len(last.pre.buf) - 1)

\* A push appends a word to a non-empty buf after a pop has removed one.
C15_Witness ==
    /\ last.op = "push_symbol"
    /\ NoCertainCall
    /\ Len(last.pre.buf) >= 1
    /\ Len(buf) = Len(last.pre.buf) + 1
    /\ LowWord(last.pre.state) # HighWord(last.pre.state)
    /\ \E i \in 1..Len(calls) :
           /\ calls[i].op = "pop_symbol"
           /\ calls[i].ok
           /\ calls[i].moved

\* The first n calls are push_symbol calls of supported symbols.
OnlyPushes(n) ==
    \A i \in 1..n : calls[i].op = "push_symbol" /\ calls[i].ok

\* C16: after one or more push_symbol calls on a fresh coder and no pop, the
\* coder is not in the initial state (buf is non-empty or state is not 2^32),
\* and a finish_decoding called then fails.
C16_UnconsumedRejected ==
    /\ (Len(calls) >= 1 /\ OnlyPushes(Len(calls))) =>
           /\ buf # <<>> \/ state # TwoTo32
           /\ ~finish_decoding(self)
    /\ (Len(calls) >= 2 /\ last.op = "finish_decoding"
           /\ OnlyPushes(Len(calls) - 1)) => ~last.ok

\* finish_decoding fails after pushes that spilled nothing: the state alone
\* tells that symbols are left.
C16_Witness ==
    /\ Len(calls) >= 3
    /\ last.op = "finish_decoding"
    /\ ~last.ok
    /\ OnlyPushes(Len(calls) - 1)
    /\ buf = <<>>

\* C17: pop_symbol on a coder in the initial state (buf empty, state 2^32)
\* fails when the symbol at quantile 0 has a probability below T; it
\* succeeds only when that probability is T, and the coder is then still in
\* the initial state.
C17_OverPop ==
    (last.op = "pop_symbol" /\ last.pre = new) =>
        LET q == quantile_function(CallDistributions[last.dist], 0)
        IN  /\ q[3] < T => ~last.ok
            /\ last.ok => (q[3] = T /\ self = new)

\* A pop too many after a push and the pop that pairs with it.
C17_Witness ==
    /\ last.op = "pop_symbol"
    /\ last.pre = new
    /\ ~last.ok
    /\ Len(calls) >= 3

\* The call before the last one is a pop_symbol that failed.
AfterFailedPop ==
    /\ Len(calls) >= 2
    /\ calls[Len(calls) - 1].op = "pop_symbol"
    /\ ~calls[Len(calls) - 1].ok

\* C18: right after a pop_symbol that failed, buf is empty and state holds
\* the updated value p * prefix + (suffix - c), which is below 2^32 (so it is
\* not the state before a call on a normalized coder), and a finish_decoding
\* called next fails.
C18_FailedPopNotRolledBack ==
    /\ (last.op = "pop_symbol" /\ ~last.ok) =>
           /\ buf = <<>>
           /\ state = PopUpdate(last.pre, CallDistributions[last.dist])
           /\ Below2To32(state)
           /\ ~Below2To32(last.pre.state) => state # last.pre.state
           /\ ~finish_decoding(self)
    /\ (last.op = "finish_decoding" /\ AfterFailedPop) => ~last.ok

\* finish_decoding after a pop that failed on a coder that was normalized,
\* with an empty buf, and not in the initial state.
C18_Witness ==
    /\ last.op = "finish_decoding"
    /\ AfterFailedPop
    /\ ~last.ok
    /\ ~Below2To32(calls[Len(calls) - 1].pre.state)
    /\ calls[Len(calls) - 1].pre.state # TwoTo32

\* C19: pop_gaussian_symbols with empty means and stds and
\* pop_iid_categorical_symbols with amt = 0 succeed, return no symbols and
\* leave state and buf as they were, in every coder state; the categorical
\* parameters are not looked at (parameters no distribution can be built
\* from do not make the call fail).
C19_EmptyPops ==
    last.op = "pop0" =>
        /\ last.ok
        /\ last.symbols = <<>>
        /\ buf = last.pre.buf
        /\ state = last.pre.state

\* A categorical pop of no symbols, with parameters of an empty support, on
\* a coder that holds symbols.
C19_Witness ==
    /\ last.op = "pop0"
    /\ last.kind = "categorical"
    /\ last.args \in InvalidCategoricalParameters
    /\ last.ok
    /\ self # new

====
